---- MODULE Spec2Model ----
(***************************************************************************)
(* A model of jak's chain engine: the dependency resolver                  *)
(* (internal/chain/dependency.go), the variable store and its ${name}      *)
(* substitution (internal/chain/request.go, second half), the request      *)
(* processor and the chain executor (internal/chain/executor.go).          *)
(*                                                                         *)
(* Go strings are modelled as sequences of one-character strings, so that  *)
(* the regular expression \${([^}]+)} and the slicing of the code are      *)
(* computed character by character.                                        *)
(***************************************************************************)
EXTENDS Integers, Sequences, FiniteSets, TLC

\* ------------------------------------------------------------------------
\* Program constants (internal/chain/constants.go)
\* ------------------------------------------------------------------------
maxVariableRecursionDepth == 5
maxVariableValueLength == 1000

\* ------------------------------------------------------------------------
\* Variable store: DefaultVariableResolver
\* ------------------------------------------------------------------------

\* NewVariableResolver: an empty values map.
NewVariableResolver == <<>>

Min(S) == CHOOSE x \in S : \A y \in S : x <= y

\* The end of the match of \${([^}]+)} that starts at index i of s, or 0
\* when no match starts there: "$", "{", one or more characters other
\* than "}", then "}".
MatchEnd(s, i) ==
    IF i + 3 <= Len(s) /\ s[i] = "$" /\ s[i + 1] = "{" /\ s[i + 2] # "}"
    THEN LET ends == {j \in (i + 3)..Len(s) : s[j] = "}"}
         IN  IF ends = {} THEN 0 ELSE Min(ends)
    ELSE 0

\* extractVariableName: match[2 : len(match)-1] (0-based), "" when shorter
\* than 4 characters.
extractVariableName(match) ==
    IF Len(match) < 4 THEN <<>> ELSE SubSeq(match, 3, Len(match) - 1)

\* A truncateValue that cuts nothing.
truncateValue_KeepsAll(value, maxLength) == value

\* truncateValue: value[:maxLength] when longer.
truncateValue(value, maxLength) ==
    IF Len(value) <= maxLength THEN value ELSE SubSeq(value, 1, maxLength)

truncateIfNeeded(value) ==
    IF Len(value) > maxVariableValueLength
    THEN truncateValue(value, maxVariableValueLength)
    ELSE value

RECURSIVE resolveRecursively(_, _, _)
RECURSIVE ReplaceAllStringFunc(_, _, _, _)

\* A resolveVariable that puts the stored value in as it stands, without
\* resolving the references the value holds.
resolveVariable_NoNesting(vals, match, depth) ==
    LET varName == extractVariableName(match)
    IN  IF varName \notin DOMAIN vals
        THEN match
        ELSE truncateIfNeeded(vals[varName])

\* resolveVariable: the replacement of one match at the given depth. An
\* unknown name and an error of the nested resolution both give the match
\* back as it stands.
resolveVariable(vals, match, depth) ==
    LET varName == extractVariableName(match)
    IN  IF varName \notin DOMAIN vals
        THEN match
        ELSE LET value == truncateIfNeeded(vals[varName])
                 r == resolveRecursively(vals, value, depth + 1)
             IN  IF r.err THEN match ELSE r.str

\* regexp.ReplaceAllStringFunc over variablePattern, scanning s from index
\* i: leftmost matches, not overlapping, the replacement is not rescanned;
\* the text between two matches is copied.
ReplaceAllStringFunc(vals, s, i, depth) ==
    LET starts == {j \in i..Len(s) : MatchEnd(s, j) # 0}
    IN  IF starts = {}
        THEN SubSeq(s, i, Len(s))
        ELSE LET b == Min(starts)
                 e == MatchEnd(s, b)
             IN  SubSeq(s, i, b - 1)
                 \o resolveVariable(vals, SubSeq(s, b, e), depth)
                 \o ReplaceAllStringFunc(vals, s, e + 1, depth)

\* A depth check that lets two more levels through.
depthExceeded_TwoLevelsLate(depth) == depth >= maxVariableRecursionDepth + 2

\* resolveRecursively: the check `depth >= maxVariableRecursionDepth`.
depthExceeded(depth) == depth >= maxVariableRecursionDepth

\* resolveRecursively: (result, error); ErrMaxRecursionDepth at depth >= 5.
resolveRecursively(vals, input, depth) ==
    IF depthExceeded(depth)
    THEN [str |-> input, err |-> TRUE]
    ELSE [str |-> ReplaceAllStringFunc(vals, input, 1, depth), err |-> FALSE]

\* Resolve: the empty input as it is; the input itself when the top-level
\* resolution reports an error.
Resolve(vals, input) ==
    IF input = <<>>
    THEN input
    ELSE LET r == resolveRecursively(vals, input, 0)
         IN  IF r.err THEN input ELSE r.str

\* The matches of variablePattern in s from index i on, as
\* ReplaceAllStringFunc meets them: leftmost, not overlapping.
RECURSIVE Matches(_, _)
Matches(s, i) ==
    LET starts == {j \in i..Len(s) : MatchEnd(s, j) # 0}
    IN  IF starts = {}
        THEN {}
        ELSE LET b == Min(starts)
                 e == MatchEnd(s, b)
             IN  {SubSeq(s, b, e)} \cup Matches(s, e + 1)

\* The depths with which resolveRecursively is called while
\* resolveRecursively(vals, input, depth) runs, this call included: a call
\* past the depth check calls resolveVariable for every match, and
\* resolveVariable calls resolveRecursively at depth + 1 on the value of
\* every stored name.
RECURSIVE resolveCallDepths(_, _, _)
resolveCallDepths(vals, input, depth) ==
    {depth} \cup
        IF depthExceeded(depth)
        THEN {}
        ELSE UNION { resolveCallDepths(vals,
                                       truncateIfNeeded(vals[extractVariableName(m)]),
                                       depth + 1) :
                     m \in {x \in Matches(input, 1) :
                               extractVariableName(x) \in DOMAIN vals} }

\* A Set that keeps the value a name already has.
Set_KeepsExisting(vals, name, value) ==
    IF name = <<>>
    THEN [values |-> vals, err |-> "ErrEmptyVariableName"]
    ELSE [values |-> [n \in DOMAIN vals \cup {name} |->
                         IF n \in DOMAIN vals THEN vals[n] ELSE value],
          err |-> "nil"]

\* Get: (value, exists) of the map lookup; "" for a name that is not there.
Get(vals, name) ==
    IF name \in DOMAIN vals
    THEN [value |-> vals[name], exists |-> TRUE]
    ELSE [value |-> <<>>, exists |-> FALSE]

\* Set: ErrEmptyVariableName for the empty name, else an unconditional
\* overwrite. (the store after the call, the error)
Set(vals, name, value) ==
    IF name = <<>>
    THEN [values |-> vals, err |-> "ErrEmptyVariableName"]
    ELSE [values |-> [n \in DOMAIN vals \cup {name} |->
                         IF n = name THEN value ELSE vals[n]],
          err |-> "nil"]

\* ------------------------------------------------------------------------
\* Dependency resolver (internal/chain/dependency.go)
\* ------------------------------------------------------------------------

\* NewDependencyResolver: empty maps. requests is kept as the set of the
\* indexed names, dependsOn as the map name -> the name it depends on.
NewDependencyResolver == [requests |-> {}, dependsOn |-> <<>>]

\* hasCycle: walk the dependsOn chain from nodeName with the names of the
\* current path in visited.
RECURSIVE hasCycle(_, _, _)
\* A hasCycle that only sees a request that depends on itself.
hasCycle_SelfOnly(dependsOn, nodeName, visited) ==
    nodeName \in DOMAIN dependsOn /\ dependsOn[nodeName] = nodeName

hasCycle(dependsOn, nodeName, visited) ==
    IF nodeName \in visited
    THEN TRUE
    ELSE IF nodeName \notin DOMAIN dependsOn
         THEN FALSE
         ELSE hasCycle(dependsOn, dependsOn[nodeName], visited \cup {nodeName})

\* detectCycles: the context check, then hasCycle from every indexed name
\* (the map order only chooses the name of the message).
detectCycles(dr, ctxDone) ==
    IF ctxDone
    THEN "ctx"
    ELSE IF \E name \in dr.requests : hasCycle(dr.dependsOn, name, {})
         THEN "ErrCyclicDependency"
         ELSE "nil"

\* The loop of buildDependencyMaps over config.Request from index i: the
\* first dependsOn that names no indexed request stops it with
\* ErrUnknownDependency, the entries recorded so far staying in the map.
RECURSIVE recordDependencies(_, _, _)
\* A loop that passes over a dependsOn that names no indexed request.
recordDependencies_SkipsUnknown(dr, reqs, i) ==
    IF i > Len(reqs)
    THEN [dr |-> dr, err |-> "nil"]
    ELSE LET req == reqs[i]
         IN  IF req.DependsOn = "" \/ req.DependsOn \notin dr.requests
             THEN recordDependencies(dr, reqs, i + 1)
             ELSE recordDependencies(
                      [dr EXCEPT !.dependsOn =
                          [n \in DOMAIN @ \cup {req.Name} |->
                              IF n = req.Name THEN req.DependsOn ELSE @[n]]],
                      reqs, i + 1)

recordDependencies(dr, reqs, i) ==
    IF i > Len(reqs)
    THEN [dr |-> dr, err |-> "nil"]
    ELSE LET req == reqs[i]
         IN  IF req.DependsOn = ""
             THEN recordDependencies(dr, reqs, i + 1)
             ELSE IF req.DependsOn \notin dr.requests
                  THEN [dr |-> dr, err |-> "ErrUnknownDependency"]
                  ELSE recordDependencies(
                           [dr EXCEPT !.dependsOn =
                               [n \in DOMAIN @ \cup {req.Name} |->
                                   IF n = req.Name THEN req.DependsOn ELSE @[n]]],
                           reqs, i + 1)

\* buildDependencyMaps: context check, the loop, then detectCycles.
\* ctxDone2 and ctxDone3 are the context as seen by the two checks.
buildDependencyMaps(dr, reqs, ctxDone2, ctxDone3) ==
    IF ctxDone2
    THEN [dr |-> dr, err |-> "ctx"]
    ELSE LET r == recordDependencies(dr, reqs, 1)
         IN  IF r.err # "nil"
             THEN r
             ELSE [dr |-> r.dr, err |-> detectCycles(r.dr, ctxDone3)]

\* BuildRequestGraph: context check, index the requests by name, then
\* buildDependencyMaps. (the resolver after the call, the error)
BuildRequestGraph(dr, reqs, ctxDone1, ctxDone2, ctxDone3) ==
    IF ctxDone1
    THEN [dr |-> dr, err |-> "ctx"]
    ELSE buildDependencyMaps(
             [dr EXCEPT !.requests = @ \cup {reqs[i].Name : i \in DOMAIN reqs}],
             reqs, ctxDone2, ctxDone3)

\* reverseStringSlice
\* A reverseStringSlice that leaves the slice as it is.
reverseStringSlice_Identity(slice) == slice

reverseStringSlice(slice) ==
    [i \in 1..Len(slice) |-> slice[Len(slice) + 1 - i]]

\* The closure visit of CalculateExecutionOrder on the state
\* (result, visited, visiting, err).
RECURSIVE visit(_, _, _)
\* A visit without the check of the names already processed.
visit_NoVisitedCheck(dependsOn, st, name) ==
    IF name \in st.visiting
    THEN [st EXCEPT !.err = "ErrCyclicDependency"]
    ELSE LET s1 == [st EXCEPT !.visiting = @ \cup {name}]
             s2 == IF name \in DOMAIN dependsOn
                   THEN visit(dependsOn, s1, dependsOn[name])
                   ELSE s1
         IN  IF s2.err # "nil"
             THEN s2
             ELSE [s2 EXCEPT !.visiting = @ \ {name},
                             !.visited = @ \cup {name},
                             !.result = Append(@, name)]

visit(dependsOn, st, name) ==
    IF name \in st.visiting
    THEN [st EXCEPT !.err = "ErrCyclicDependency"]
    ELSE IF name \in st.visited
         THEN st
         ELSE LET s1 == [st EXCEPT !.visiting = @ \cup {name}]
                  s2 == IF name \in DOMAIN dependsOn
                        THEN visit(dependsOn, s1, dependsOn[name])
                        ELSE s1
              IN  IF s2.err # "nil"
                  THEN s2
                  ELSE [s2 EXCEPT !.visiting = @ \ {name},
                                  !.visited = @ \cup {name},
                                  !.result = Append(@, name)]

\* for name := range dr.requests { visit(name) }, in the order iter the map
\* iteration happens to take, stopping at the first error.
RECURSIVE visitAll(_, _, _, _)
visitAll(dependsOn, st, iter, i) ==
    IF i > Len(iter)
    THEN st
    ELSE LET s1 == visit(dependsOn, st, iter[i])
         IN  IF s1.err # "nil" THEN s1 ELSE visitAll(dependsOn, s1, iter, i + 1)

\* CalculateExecutionOrder: ([]string, error). iter is the order in which
\* the range over the requests map yields the names.
CalculateExecutionOrder(dr, iter, ctxDone) ==
    IF ctxDone
    THEN [order |-> <<>>, err |-> "ctx"]
    ELSE LET st == visitAll(dr.dependsOn,
                            [result |-> <<>>, visited |-> {}, visiting |-> {},
                             err |-> "nil"],
                            iter, 1)
         IN  IF st.err # "nil"
             THEN [order |-> <<>>, err |-> st.err]
             ELSE [order |-> reverseStringSlice(st.result), err |-> "nil"]

\* The orders in which a range over a Go map with key set S may yield.
MapOrders(S) ==
    {f \in [1..Cardinality(S) -> S] : \A i, j \in DOMAIN f : f[i] = f[j] => i = j}

\* ------------------------------------------------------------------------
\* Request processor (internal/chain/request.go, first half) and variable
\* extractor. A context is given as doneAt, the number of the first
\* cancellation check of the call that finds it done; the check numbered k
\* sees the context done when doneAt <= k.
\* ------------------------------------------------------------------------
maxBodySizeMultiplier == 10

\* A *string: nil, or a pointer to the string s.
NilPtr == [nil |-> TRUE, s |-> <<>>]
Ptr(str) == [nil |-> FALSE, s |-> str]

ResolveHeaders(vals, headers) ==
    IF Len(headers) = 0
    THEN headers
    ELSE [i \in 1..Len(headers) |-> Resolve(vals, headers[i])]

\* ResolveBody on a *string given as (nil, s): nil and "" pass through, the
\* resolved text is cut to maxVariableValueLength * maxBodySizeMultiplier.
ResolveBody(vals, body) ==
    IF body.nil \/ body.s = <<>>
    THEN body
    ELSE LET res == Resolve(vals, body.s)
             maxBodySize == maxVariableValueLength * maxBodySizeMultiplier
         IN  IF Len(res) > maxBodySize
             THEN [nil |-> FALSE, s |-> SubSeq(res, 1, maxBodySize)]
             ELSE [nil |-> FALSE, s |-> res]

isNonEmptyStringPtr(p) == ~p.nil /\ p.s # <<>>

\* prepareRequest: context check (2), then a copy of the request with the
\* path, the headers and each non-empty body resolved.
prepareRequest(vals, req, doneAt) ==
    IF doneAt <= 2
    THEN [req |-> req, err |-> "ctx"]
    ELSE [req |-> [req EXCEPT
                      !.Path = Resolve(vals, req.Path),
                      !.Headers = IF Len(req.Headers) > 0
                                  THEN ResolveHeaders(vals, req.Headers)
                                  ELSE req.Headers,
                      !.JsonBody = IF isNonEmptyStringPtr(req.JsonBody)
                                   THEN ResolveBody(vals, req.JsonBody)
                                   ELSE req.JsonBody,
                      !.FormBody = IF isNonEmptyStringPtr(req.FormBody)
                                   THEN ResolveBody(vals, req.FormBody)
                                   ELSE req.FormBody,
                      !.RawBody = IF isNonEmptyStringPtr(req.RawBody)
                                  THEN ResolveBody(vals, req.RawBody)
                                  ELSE req.RawBody],
          err |-> "nil"]

\* An executeRequest that hands the request to the client whatever the
\* factory returned.
executeRequest_IgnoresFactoryError(outcome, doneAt) ==
    IF doneAt <= 3
    THEN [err |-> "ctx", factory |-> FALSE, client |-> FALSE]
    ELSE IF outcome.kind = "response"
         THEN [err |-> "nil", factory |-> TRUE, client |-> TRUE]
         ELSE [err |-> "ErrRequestExecution", factory |-> TRUE, client |-> TRUE]

\* executeRequest: context check (3), factory.CreateFromConfig, client.Do.
\* outcome is what the factory and the client do with this request.
\* (error, whether the factory and the client were called)
executeRequest(outcome, doneAt) ==
    IF doneAt <= 3
    THEN [err |-> "ctx", factory |-> FALSE, client |-> FALSE]
    ELSE IF outcome.kind = "factoryErr"
         THEN [err |-> "ErrCreateRequest", factory |-> TRUE, client |-> FALSE]
         ELSE IF outcome.kind = "clientErr"
              THEN [err |-> "ErrRequestExecution", factory |-> TRUE, client |-> TRUE]
              ELSE [err |-> "nil", factory |-> TRUE, client |-> TRUE]

\* GJSONExtractor.Extract on a body given as the map path -> value of the
\* paths that exist in it.
Extract(body, path) ==
    IF path \in DOMAIN body
    THEN [value |-> body[path], exists |-> TRUE]
    ELSE [value |-> <<>>, exists |-> FALSE]

\* The loop of ExtractVariables over the extraction map in the order iter,
\* from index i, with the variables found so far.
RECURSIVE extractLoop(_, _, _, _, _, _)
\* A loop that passes over a path the body does not hold.
extractLoop_SkipsMissing(body, extractions, iter, i, variables, doneAt) ==
    IF i > Len(iter)
    THEN [variables |-> variables, err |-> "nil"]
    ELSE IF doneAt <= 5
         THEN [variables |-> <<>>, err |-> "ctx"]
         ELSE LET r == Extract(body, extractions[iter[i]])
              IN  IF ~r.exists
                  THEN extractLoop(body, extractions, iter, i + 1, variables,
                                   doneAt)
                  ELSE extractLoop(body, extractions, iter, i + 1,
                           [n \in DOMAIN variables \cup {iter[i]} |->
                               IF n = iter[i] THEN r.value ELSE variables[n]],
                           doneAt)

extractLoop(body, extractions, iter, i, variables, doneAt) ==
    IF i > Len(iter)
    THEN [variables |-> variables, err |-> "nil"]
    ELSE IF doneAt <= 5
         THEN [variables |-> <<>>, err |-> "ctx"]
         ELSE LET r == Extract(body, extractions[iter[i]])
              IN  IF ~r.exists
                  THEN [variables |-> <<>>, err |-> "ErrPathNotFound"]
                  ELSE extractLoop(body, extractions, iter, i + 1,
                           [n \in DOMAIN variables \cup {iter[i]} |->
                               IF n = iter[i] THEN r.value ELSE variables[n]],
                           doneAt)

\* ExtractVariables: context check (4), the capped read of the body, then
\* the loop. (the variables, the error)
ExtractVariables(resp, extractions, iter, doneAt) ==
    IF doneAt <= 4
    THEN [variables |-> <<>>, err |-> "ctx"]
    ELSE IF resp.tooLarge
         THEN [variables |-> <<>>, err |-> "ErrResponseTooLarge"]
         ELSE extractLoop(resp.body, extractions, iter, 1, <<>>, doneAt)

\* The loop of ProcessRequest that stores the extracted variables, in the
\* order iter, from index i: the first Set that fails ends it.
RECURSIVE storeLoop(_, _, _, _, _)
storeLoop(vals, extracted, iter, i, stored) ==
    IF i > Len(iter)
    THEN [values |-> vals, variables |-> stored, err |-> "nil"]
    ELSE LET r == Set(vals, iter[i], extracted[iter[i]])
         IN  IF r.err # "nil"
             THEN [values |-> vals, variables |-> stored, err |-> r.err]
             ELSE storeLoop(r.values, extracted, iter, i + 1,
                      [n \in DOMAIN stored \cup {iter[i]} |->
                          IF n = iter[i] THEN extracted[n] ELSE stored[n]])

NoResult == [nil |-> TRUE, StatusCode |-> 0, Variables |-> <<>>]
NoRequestSent == [sent |-> FALSE, Path |-> <<>>, Headers |-> <<>>,
                  RawBody |-> NilPtr, FormBody |-> NilPtr, JsonBody |-> NilPtr]

\* ProcessRequest: context check (1), prepareRequest, executeRequest, then
\* the extraction and the storing of the variables when the request has an
\* extraction map. iterE and iterS are the orders of the two map ranges.
\* (the result, the error, the store after the call, the request given to
\* client.Do, whether the factory was called, whether ExtractVariables
\* was called)
ProcessRequest(vals, request, outcome, doneAt, iterE, iterS) ==
    LET none == [result |-> NoResult, err |-> "ctx", values |-> vals,
                 sent |-> NoRequestSent, factory |-> FALSE,
                 extractor |-> FALSE]
    IN
    IF doneAt <= 1
    THEN none
    ELSE LET p == prepareRequest(vals, request, doneAt)
         IN
         IF p.err # "nil"
         THEN [none EXCEPT !.err = "prepare:ctx"]
         ELSE LET x == executeRequest(outcome, doneAt)
                  sent == IF x.client
                          THEN [sent |-> TRUE, Path |-> p.req.Path,
                                Headers |-> p.req.Headers,
                                RawBody |-> p.req.RawBody,
                                FormBody |-> p.req.FormBody,
                                JsonBody |-> p.req.JsonBody]
                          ELSE NoRequestSent
                  after == [none EXCEPT !.sent = sent, !.factory = x.factory]
              IN
              IF x.err # "nil"
              THEN [after EXCEPT !.err = x.err]
              ELSE IF DOMAIN p.req.Extract = {}
                   THEN [after EXCEPT !.err = "nil",
                             !.result = [nil |-> FALSE,
                                         StatusCode |-> outcome.StatusCode,
                                         Variables |-> <<>>]]
                   ELSE LET e == ExtractVariables(outcome, p.req.Extract,
                                                  iterE, doneAt)
                        IN
                        IF e.err # "nil"
                        THEN [after EXCEPT !.err = "ErrVariableExtraction",
                                           !.extractor = TRUE]
                        ELSE LET st == storeLoop(vals, e.variables, iterS, 1, <<>>)
                             IN  IF st.err # "nil"
                                 THEN [after EXCEPT !.err = st.err,
                                                    !.extractor = TRUE,
                                                    !.values = st.values]
                                 ELSE [after EXCEPT !.err = "nil",
                                           !.extractor = TRUE,
                                           !.values = st.values,
                                           !.result = [nil |-> FALSE,
                                               StatusCode |-> outcome.StatusCode,
                                               Variables |-> st.variables]]

\* ------------------------------------------------------------------------
\* State
\* ------------------------------------------------------------------------
VARIABLES
    values,     \* DefaultVariableResolver.values: name -> value
    resolved,   \* the Resolve call just made: [input, output], or NoCall
    config,     \* rule.Config: Request (the list), IgnoreFail
    dr,         \* the DependencyResolver: requests, dependsOn
    graph,      \* what BuildRequestGraph and CalculateExecutionOrder
                \* returned: built, buildErr, ordered, order, orderErr
    ctxDone,    \* whether the context of the run is done
    pc,         \* where Execute is: "idle", "loop", "returned"
    run,        \* the number of the Execute call on this executor
    idx,        \* the index into executionOrder of the next iteration
    executedRequests,   \* the map of executeRequestsInOrder, as a set
    resultCollector,    \* whether a result collector is set
    calls,      \* the ProcessRequest calls of this run, in order: the
                \* request's name, whether it returned no error, the
                \* request given to client.Do, the variables of the result
    last,       \* the last ProcessRequest call: its error, whether it
                \* called the factory
    collected,  \* the result collector's invocations of this run
    execErr,    \* what Execute returned
    processed,  \* the ProcessRequest call made on its own: its inputs,
                \* the store before it, what it returned
    store,      \* the Set and Get calls made on a variable store on its
                \* own: the last call and what it returned, and the value
                \* last given to a Set that succeeded, for every name
    validated,  \* the Config.Validate call made on the config: its error
    pool,       \* ExecuteBatchConcurrent: where the calling goroutine is,
                \* the jobs channel, the workers, the error channel, the
                \* calls made for every request, the context
    batch       \* ExecuteBatchSequential on two engine Executors, one with
                \* a result collector and one without, given the same
                \* config, the same outcome of every request and the same
                \* context: ex[collector] is where each one is, ctxDone
                \* whether the context is done

chainVars == <<ctxDone, pc, run, idx, executedRequests, resultCollector,
               calls, last, collected, execErr>>
engineVars == <<processed, batch, pool, validated, store>>
vars == <<values, resolved, config, dr, graph, chainVars, engineVars>>

NoCall == [input |-> <<>>, output |-> <<>>, called |-> FALSE]
NoConfig == [Request |-> <<>>, IgnoreFail |-> FALSE]
NoGraph == [built |-> FALSE, buildErr |-> "nil",
            ordered |-> FALSE, order |-> <<>>, orderErr |-> "nil"]
NoError == [stage |-> "none", cause |-> "nil", name |-> ""]
NoLast == [err |-> "nil", factory |-> FALSE]
NoProcessed == [called |-> FALSE]
\* An engine Executor before ExecuteBatchSequential: the index of the next
\* request of the loop, the executeConfigRequest calls made, the requests
\* reported to the collector, the requests passed over because the context
\* was done, the error returned.
BatchIdle == [pc |-> "idle", idx |-> 1, attempts |-> <<>>, collected |-> <<>>,
              skipped |-> {}, err |-> "nil"]
NoBatch == [ex |-> [c \in BOOLEAN |-> BatchIdle], ctxDone |-> FALSE]
\* An engine Executor before ExecuteBatchConcurrent.
NoPool == [pc |-> "idle", collector |-> FALSE]
\* A config before Validate is called on it.
NoValidated == [called |-> FALSE, err |-> "nil"]
\* A variable store before any call.
NoStore == [op |-> "none", written |-> <<>>]

\* Nothing called yet outside the chain executor.
EngineIdle ==
    /\ processed = NoProcessed
    /\ batch = NoBatch
    /\ pool = NoPool
    /\ validated = NoValidated
    /\ store = NoStore

\* The chain executor before its first Execute.
ChainIdle ==
    /\ ctxDone = FALSE
    /\ pc = "idle"
    /\ run = 1
    /\ idx = 1
    /\ executedRequests = {}
    /\ resultCollector = FALSE
    /\ calls = <<>>
    /\ last = NoLast
    /\ collected = <<>>
    /\ execErr = NoError

\* ------------------------------------------------------------------------
\* The inputs of the resolver's specification. A text is written as a list
\* of segments, a literal text or a reference ${name}, and handed to the
\* code flattened to characters.
\* ------------------------------------------------------------------------
NumVars == 5

AllVarNames == << <<"a">>, <<"b">>, <<"c">>, <<"d">>, <<"e">>, <<"f">>, <<"g">> >>
VarIndex == 1..NumVars
VarName(i) == AllVarNames[i]
VarNames == {VarName(i) : i \in VarIndex}
NextVar(i) == VarName((i % NumVars) + 1)
\* a name no Set ever stores
UnsetName == <<"u", "n">>

Text(s) == [t |-> "text", s |-> s, n |-> <<>>]
Ref(n) == [t |-> "ref", s |-> <<>>, n |-> n]
Token(n) == <<"$", "{">> \o n \o <<"}">>

RECURSIVE Flatten(_)
Flatten(segs) ==
    IF segs = <<>>
    THEN <<>>
    ELSE (IF Head(segs).t = "text" THEN Head(segs).s ELSE Token(Head(segs).n))
         \o Flatten(Tail(segs))

\* The values Set may store under the i-th name: empty, a plain text, a
\* text followed by a reference to the next name (the last name refers to
\* the first: a cycle), a reference to itself followed by a text.
ValueSegs(i) ==
    { <<>>,
      <<Text(<<"z">>)>>,
      <<Text(<<"x">>), Ref(NextVar(i))>>,
      <<Ref(VarName(i)), Text(<<"y">>)>> }

\* The texts handed to Resolve.
InputSegs ==
    { <<>>,
      <<Text(<<"p", "q">>)>>,
      <<Ref(VarName(1))>>,
      <<Text(<<"p">>), Ref(VarName(2)), Text(<<"q">>)>>,
      <<Ref(VarName(1)), Ref(UnsetName)>>,
      <<Text(<<"$", "{", "}">>), Ref(VarName(NumVars)), Text(<<"}", "$">>)>>,
      <<Ref(UnsetName), Text(<<"{">>), Ref(VarName(3))>> }

AllSegs == InputSegs \cup UNION {ValueSegs(i) : i \in VarIndex}
SegsOf(str) == CHOOSE segs \in AllSegs : Flatten(segs) = str

\* ------------------------------------------------------------------------
\* The resolver's specification: Set and Resolve called in any order.
\* ------------------------------------------------------------------------
InitResolve ==
    /\ values = NewVariableResolver
    /\ resolved = NoCall
    /\ EngineIdle
    /\ config = NoConfig
    /\ dr = NewDependencyResolver
    /\ graph = NoGraph
    /\ ChainIdle

\* r.Set(name, value); an empty name is refused.
CallSet ==
    \E i \in VarIndex : \E segs \in ValueSegs(i) : \E name \in {VarName(i), <<>>} :
        /\ values' = Set(values, name, Flatten(segs)).values
        /\ resolved' = NoCall
        /\ UNCHANGED <<config, engineVars, dr, graph, chainVars>>

\* r.Resolve(input)
CallResolve ==
    \E segs \in InputSegs :
        /\ resolved' = [input |-> Flatten(segs),
                        output |-> Resolve(values, Flatten(segs)),
                        called |-> TRUE]
        /\ UNCHANGED <<values, config, engineVars, dr, graph, chainVars>>

NextResolve == CallSet \/ CallResolve

SpecResolve == InitResolve /\ [][NextResolve]_vars

\* ------------------------------------------------------------------------
\* Claims about Resolve (checked under SpecResolve)
\* ------------------------------------------------------------------------

\* The segments of the value stored under a name.
StoredSegs(n) == SegsOf(values[n])

\* Whether resolving segs, met at the given depth, asks for a resolution at
\* depth 5 or deeper: some reference to a stored name sits under four
\* nested substitutions.
RECURSIVE ExceedsDepth(_, _)
ExceedsDepth(segs, depth) ==
    \E k \in 1..Len(segs) :
        /\ segs[k].t = "ref"
        /\ segs[k].n \in DOMAIN values
        /\ \/ depth + 1 >= maxVariableRecursionDepth
           \/ ExceedsDepth(StoredSegs(segs[k].n), depth + 1)

\* The text the claims describe, segment by segment: a literal text stays,
\* a reference to a name that is not stored stays as ${name}, a reference
\* to a stored name becomes its value with the value's references
\* expanded in turn; `limit` is the depth at which a reference is left as
\* it stands instead.
RECURSIVE Expand(_, _, _)
Expand(segs, depth, limit) ==
    IF segs = <<>>
    THEN <<>>
    ELSE LET seg == Head(segs)
             one == IF seg.t = "text"
                    THEN seg.s
                    ELSE IF seg.n \notin DOMAIN values \/ depth + 1 >= limit
                         THEN Token(seg.n)
                         ELSE Expand(StoredSegs(seg.n), depth + 1, limit)
         IN  one \o Expand(Tail(segs), depth, limit)

\* Whether the stored references form no cycle: from every name, following
\* references NumVars times leaves the store or ends in a plain text.
RECURSIVE RefChainEnds(_, _)
RefChainEnds(segs, fuel) ==
    \A k \in 1..Len(segs) :
        (segs[k].t = "ref" /\ segs[k].n \in DOMAIN values)
            => (fuel > 0 /\ RefChainEnds(StoredSegs(segs[k].n), fuel - 1))
AcyclicStore == \A n \in DOMAIN values : RefChainEnds(StoredSegs(n), NumVars)

\* C9 (as claimed): when the resolution exceeds the maximum depth of 5,
\* Resolve returns its input unchanged, not a partially expanded text.
C9_DepthExceededReturnsInput ==
    (resolved.called /\ ExceedsDepth(SegsOf(resolved.input), 0))
        => resolved.output = resolved.input

NumRequests == 3

AllReqNames == <<"A", "B", "C", "D", "E">>
ReqIndex == 1..NumRequests
ReqNames == {AllReqNames[i] : i \in ReqIndex}
\* a dependsOn that names no request
UnknownName == "nop"
IndexOfName(name) == CHOOSE i \in ReqIndex : AllReqNames[i] = name
\* the variable a request extracts
VarOf(name) == AllVarNames[IndexOfName(name)]

IdPath == <<"i", "d">>

\* The i-th request, depending on dep ("" for none). A request that
\* depends on a request of the list refers to that request's variable in
\* its path, its header and its JSON body. Every request but the last
\* extracts its own variable from the path "id" of its response.
MakeRequest(i, dep) ==
    LET name == AllReqNames[i]
        uses == dep \in ReqNames
        tok == IF uses THEN Token(VarOf(dep)) ELSE <<>>
    IN  [Name |-> name,
         Method |-> "GET",
         Path |-> IF uses THEN <<"/">> \o tok ELSE <<"/", "p">>,
         Headers |-> IF uses THEN << <<"t", ":">> \o tok >> ELSE <<>>,
         RawBody |-> NilPtr,
         FormBody |-> IF uses THEN NilPtr ELSE Ptr(<<>>),
         JsonBody |-> IF uses THEN Ptr(<<"{">> \o tok \o <<"}">>) ELSE NilPtr,
         Extract |-> IF i < NumRequests THEN (VarOf(name) :> IdPath) ELSE <<>>,
         DependsOn |-> dep]

DependsOnChoices == {""} \cup ReqNames \cup {UnknownName}

Configs ==
    {[Request |-> [i \in ReqIndex |-> MakeRequest(i, deps[i])],
      IgnoreFail |-> ignoreFail] :
        deps \in [ReqIndex -> DependsOnChoices], ignoreFail \in BOOLEAN}

\* The request of a config with the given name.
RequestNamed(cfg, name) ==
    cfg.Request[CHOOSE i \in DOMAIN cfg.Request : cfg.Request[i].Name = name]

\* What a config is, read off its list alone.
NamesOf(cfg) == {cfg.Request[i].Name : i \in DOMAIN cfg.Request}
HasUnknownDependency(cfg) ==
    \E i \in DOMAIN cfg.Request :
        cfg.Request[i].DependsOn \notin NamesOf(cfg) \cup {""}
\* the name reached from `name` by following dependsOn k times ("" when
\* the chain ends before)
RECURSIVE Ancestor(_, _, _)
Ancestor(cfg, name, k) ==
    IF k = 0 \/ name \notin NamesOf(cfg)
    THEN name
    ELSE Ancestor(cfg, RequestNamed(cfg, name).DependsOn, k - 1)
HasClosedChain(cfg) ==
    \E name \in NamesOf(cfg) :
        \E k \in 1..Len(cfg.Request) : Ancestor(cfg, name, k) = name

\* ------------------------------------------------------------------------
\* The chain executor's specification (internal/chain/executor.go):
\* Execute on one ChainExecutor, up to MaxRuns times, under a context that
\* may become done at any moment.
\* ------------------------------------------------------------------------
MaxRuns == 2

\* The value the server's responses hold at the path "id": another one
\* in every run.
ResponseValue(r) == << <<"1", "2", "3", "4">>[r] >>

\* What the factory and the client may do with a request: the factory
\* fails, the client fails, or a response arrives: without the path, with
\* it, or with a body over the size cap.
NoResponse(kind) ==
    [kind |-> kind, StatusCode |-> 0, body |-> <<>>, tooLarge |-> FALSE]
Outcomes(r) ==
    {NoResponse("factoryErr"), NoResponse("clientErr")}
    \cup {[kind |-> "response", StatusCode |-> 200, body |-> <<>>,
           tooLarge |-> large] : large \in BOOLEAN}
    \cup {[kind |-> "response", StatusCode |-> 200,
           body |-> (IdPath :> ResponseValue(r)), tooLarge |-> FALSE]}

InitChain ==
    /\ values = NewVariableResolver
    /\ resolved = NoCall
    /\ EngineIdle
    /\ config \in Configs
    /\ dr = NewDependencyResolver
    /\ graph = NoGraph
    /\ ctxDone = FALSE
    /\ pc = "idle"
    /\ run = 1
    /\ idx = 1
    /\ executedRequests = {}
    /\ resultCollector = TRUE
    /\ calls = <<>>
    /\ last = NoLast
    /\ collected = <<>>
    /\ execErr = NoError

Return(err) ==
    /\ pc' = "returned"
    /\ execErr' = err

\* An error policy that never ends the run.
processRequestByNameReturn_NeverFails(cfg, requestName, err) == NoError

\* An error policy that does not read IgnoreFail.
processRequestByNameReturn_IgnoresFlag(cfg, requestName, err) ==
    IF err # "nil"
    THEN [stage |-> "request", cause |-> err, name |-> requestName]
    ELSE NoError

\* What processRequestByName returns for the error ProcessRequest gave:
\* nil under IgnoreFail, else the error wrapped with the request's name.
processRequestByNameReturn(cfg, requestName, err) ==
    IF err # "nil" /\ ~cfg.IgnoreFail
    THEN [stage |-> "request", cause |-> err, name |-> requestName]
    ELSE NoError

\* Execute up to the loop: a new DependencyResolver, BuildRequestGraph
\* (checks 1 to 3), CalculateExecutionOrder (check 4).
ExecuteStart ==
    /\ pc = "idle"
    /\ \E doneAt \in (IF ctxDone THEN {1} ELSE 2..5) :
       \E b \in {BuildRequestGraph(NewDependencyResolver, config.Request,
                                   doneAt <= 1, doneAt <= 2, doneAt <= 3)} :
           /\ ctxDone' = (doneAt <= 4)
           /\ dr' = b.dr
           /\ IF b.err # "nil"
              THEN /\ graph' = [NoGraph EXCEPT !.built = TRUE, !.buildErr = b.err]
                   /\ Return([stage |-> "build", cause |-> b.err, name |-> ""])
              ELSE \E iter \in MapOrders(b.dr.requests) :
                   \E o \in {CalculateExecutionOrder(b.dr, iter, doneAt <= 4)} :
                       /\ graph' = [built |-> TRUE, buildErr |-> "nil",
                                    ordered |-> TRUE, order |-> o.order,
                                    orderErr |-> o.err]
                       /\ IF o.err # "nil"
                          THEN Return([stage |-> "order", cause |-> o.err,
                                       name |-> ""])
                          ELSE /\ pc' = "loop"
                               /\ execErr' = execErr
    /\ idx' = 1
    /\ executedRequests' = {}
    /\ UNCHANGED <<values, resolved, config, engineVars, run, resultCollector, calls,
                   last, collected>>

\* An iteration that finds the context done and goes on to the next name.
LoopCancelled_Continues ==
    /\ pc = "loop"
    /\ idx <= Len(graph.order)
    /\ ctxDone
    /\ idx' = idx + 1
    /\ UNCHANGED <<values, resolved, config, engineVars, dr, graph, ctxDone, pc, run,
                   executedRequests, resultCollector, calls, last, collected,
                   execErr>>

\* An iteration of executeRequestsInOrder that finds the context done.
LoopCancelled ==
    /\ pc = "loop"
    /\ idx <= Len(graph.order)
    /\ ctxDone
    /\ Return([stage |-> "ctx", cause |-> "ctx", name |-> ""])
    /\ UNCHANGED <<values, resolved, config, engineVars, dr, graph, ctxDone, run, idx,
                   executedRequests, resultCollector, calls, last, collected>>

\* An iteration that runs processRequestByName: nothing for a name already
\* in executedRequests, else ProcessRequest, the result collector, then the
\* error policy.
LoopProcess ==
    /\ pc = "loop"
    /\ idx <= Len(graph.order)
    /\ ~ctxDone
    /\ IF graph.order[idx] \in executedRequests
       THEN /\ idx' = idx + 1
            /\ UNCHANGED <<values, ctxDone, pc, executedRequests, calls,
                           last, collected, execErr>>
       ELSE
       LET requestName == graph.order[idx]
           requestObj == RequestNamed(config, requestName)
       IN  \E outcome \in Outcomes(run), doneAt \in 1..6 :
           \E iterE \in MapOrders(DOMAIN requestObj.Extract) :
           \E iterS \in MapOrders(DOMAIN requestObj.Extract) :
           \E r \in {ProcessRequest(values, requestObj, outcome, doneAt,
                                    iterE, iterS)} :
           LET variables == IF r.result.nil THEN <<>> ELSE r.result.Variables
               statusCode == IF r.result.nil THEN 0 ELSE r.result.StatusCode
           IN  /\ values' = r.values
               /\ ctxDone' = (doneAt <= 5)
               /\ calls' = Append(calls, [name |-> requestName,
                                          ok |-> r.err = "nil",
                                          sent |-> r.sent,
                                          variables |-> variables])
               /\ last' = [err |-> r.err, factory |-> r.factory]
               /\ collected' = IF resultCollector
                               THEN Append(collected,
                                        [name |-> requestObj.Name,
                                         statusCode |-> statusCode,
                                         failed |-> r.err # "nil",
                                         variables |-> variables])
                               ELSE collected
               /\ \E ret \in {processRequestByNameReturn(
                                    config, requestObj.Name, r.err)} :
                      IF ret # NoError
                      THEN /\ Return(ret)
                           /\ UNCHANGED <<idx, executedRequests>>
                      ELSE /\ executedRequests' =
                                  IF r.err # "nil"
                                  THEN executedRequests
                                  ELSE executedRequests \cup {requestName}
                           /\ idx' = idx + 1
                           /\ UNCHANGED <<pc, execErr>>
    /\ UNCHANGED <<resolved, config, engineVars, dr, graph, run, resultCollector>>

\* The end of the loop: Execute returns nil.
LoopExit ==
    /\ pc = "loop"
    /\ idx > Len(graph.order)
    /\ Return(NoError)
    /\ UNCHANGED <<values, resolved, config, engineVars, dr, graph, ctxDone, run, idx,
                   executedRequests, resultCollector, calls, last, collected>>

\* The context's deadline passes or its cancel function is called.
Cancel ==
    /\ pc # "returned"
    /\ ~ctxDone
    /\ ctxDone' = TRUE
    /\ UNCHANGED <<values, resolved, config, engineVars, dr, graph, pc, run, idx,
                   executedRequests, resultCollector, calls, last, collected, execErr>>

\* Execute is called again on the same ChainExecutor, with the same config
\* and a new context: the executor's variableResolver is the one
\* NewChainExecutor made.  The caller repeats a run that returned no error
\* and reported no failed request.
ExecuteAgain ==
    /\ pc = "returned"
    /\ run < MaxRuns
    /\ execErr = NoError
    /\ \A i \in 1..Len(collected) : ~collected[i].failed
    /\ run' = run + 1
    /\ pc' = "idle"
    /\ ctxDone' = FALSE
    /\ dr' = NewDependencyResolver
    /\ graph' = NoGraph
    /\ idx' = 1
    /\ executedRequests' = {}
    /\ calls' = <<>>
    /\ last' = NoLast
    /\ collected' = <<>>
    /\ execErr' = NoError
    /\ UNCHANGED <<values, resolved, config, engineVars, resultCollector>>

Next ==
    \/ ExecuteStart
    \/ LoopCancelled
    \/ LoopProcess
    \/ LoopExit
    \/ Cancel
    \/ ExecuteAgain

Spec == InitChain /\ [][Next]_vars

\* ------------------------------------------------------------------------
\* The dependency resolver's specification: BuildRequestGraph, then
\* CalculateExecutionOrder on the same resolver, as the package's tests
\* call them, with a context that is not done.
\* ------------------------------------------------------------------------
InitOrder ==
    /\ values = NewVariableResolver
    /\ resolved = NoCall
    /\ EngineIdle
    /\ config \in Configs
    /\ dr = NewDependencyResolver
    /\ graph = NoGraph
    /\ ChainIdle

CallBuildRequestGraph ==
    /\ ~graph.built
    /\ LET r == BuildRequestGraph(dr, config.Request, FALSE, FALSE, FALSE)
       IN  /\ dr' = r.dr
           /\ graph' = [graph EXCEPT !.built = TRUE, !.buildErr = r.err]
    /\ UNCHANGED <<values, resolved, config, engineVars, chainVars>>

CallCalculateExecutionOrder ==
    /\ graph.built
    /\ ~graph.ordered
    /\ \E iter \in MapOrders(dr.requests) :
           LET r == CalculateExecutionOrder(dr, iter, FALSE)
           IN  graph' = [graph EXCEPT !.ordered = TRUE,
                                      !.order = r.order,
                                      !.orderErr = r.err]
    /\ UNCHANGED <<values, resolved, config, engineVars, dr, chainVars>>

NextOrder == CallBuildRequestGraph \/ CallCalculateExecutionOrder

SpecOrder == InitOrder /\ [][NextOrder]_vars

\* ------------------------------------------------------------------------
\* Claims about the dependency resolver (checked under SpecOrder)
\* ------------------------------------------------------------------------
IsPermutationOf(list, S) ==
    /\ Len(list) = Cardinality(S)
    /\ {list[i] : i \in DOMAIN list} = S

\* C3: for a request list with unique names and no cycle, after a
\* successful BuildRequestGraph, CalculateExecutionOrder returns no error
\* and a list in which every request name appears exactly once and no
\* other name appears.
C3_OrderIsPermutation ==
    (graph.ordered /\ graph.buildErr = "nil" /\ ~HasClosedChain(config))
        => /\ graph.orderErr = "nil"
           /\ IsPermutationOf(graph.order, NamesOf(config))

\* C3 witness: an order computed for a list with dependencies.
C3_Witness ==
    /\ graph.ordered
    /\ graph.buildErr = "nil"
    /\ ~HasClosedChain(config)
    /\ \E i \in DOMAIN config.Request : config.Request[i].DependsOn # ""
    /\ Len(graph.order) = NumRequests

\* C4 (as claimed): for every request list whose dependsOn edges hold a
\* closed chain, BuildRequestGraph returns CyclicDependency and so does
\* CalculateExecutionOrder on the same maps.
C4_ClosedChainIsCyclicError ==
    (graph.ordered /\ HasClosedChain(config))
        => /\ graph.buildErr = "ErrCyclicDependency"
           /\ graph.orderErr = "ErrCyclicDependency"

\* C4 (amended): for every request list in which every dependsOn names a
\* request of the list and the dependsOn edges hold a closed chain,
\* BuildRequestGraph returns CyclicDependency and CalculateExecutionOrder
\* on the same maps returns CyclicDependency too; both return.
C4_ClosedChainOfKnownIsCyclicError ==
    /\ (graph.built /\ HasClosedChain(config) /\ ~HasUnknownDependency(config))
           => graph.buildErr = "ErrCyclicDependency"
    /\ (graph.ordered /\ HasClosedChain(config) /\ ~HasUnknownDependency(config))
           => graph.orderErr = "ErrCyclicDependency"

\* C4 witness: both calls made on a list with a closed chain of several
\* requests and no unknown dependsOn.
C4_Witness ==
    /\ graph.ordered
    /\ ~HasUnknownDependency(config)
    /\ \E name \in NamesOf(config) :
           /\ Ancestor(config, name, 1) # name
           /\ \E k \in 2..NumRequests : Ancestor(config, name, k) = name

\* ------------------------------------------------------------------------
\* Claims about the chain executor (checked under Spec)
\* ------------------------------------------------------------------------
\* The dependsOn of a config's requests, in the order of the list, and the
\* ones of the configs without unknown dependsOn and without closed chain.
DepsOf(cfg) == [i \in DOMAIN cfg.Request |-> cfg.Request[i].DependsOn]
ValidDependsOn ==
    {DepsOf(cfg) : cfg \in {c \in Configs : /\ ~HasUnknownDependency(c)
                                            /\ ~HasClosedChain(c)}}
ValidConfig == DepsOf(config) \in ValidDependsOn
CalledNames == [i \in DOMAIN calls |-> calls[i].name]

\* C1 (as claimed): in a run over an acyclic config, ProcessRequest is
\* called for a request with a dependsOn only after it was called for the
\* request it depends on.
C1_DependencyProcessedFirst ==
    \A i \in DOMAIN calls :
        LET dep == RequestNamed(config, calls[i].name).DependsOn
        IN  dep # "" => \E j \in 1..(i - 1) : calls[j].name = dep

\* C2 (as claimed): in a run where B depends on A, A's extraction map
\* defines v and A's response holds the path, the request of B given to
\* the transport has the value extracted from A's response in place of
\* every ${v} of its path, headers and body.
C2_DependentSentWithExtractedValue ==
    \A i, j \in DOMAIN calls :
        LET B == RequestNamed(config, calls[i].name)
            v == VarOf(calls[j].name)
        IN  (/\ B.DependsOn = calls[j].name
             /\ calls[i].sent.sent
             /\ v \in DOMAIN calls[j].variables)
            => LET val == calls[j].variables[v]
               IN  /\ calls[i].sent.Path = <<"/">> \o val
                   /\ calls[i].sent.Headers = << <<"t", ":">> \o val >>
                   /\ calls[i].sent.JsonBody = Ptr(<<"{">> \o val \o <<"}">>)

\* The structural errors a config calls for.
StructuralErrors(cfg) ==
    (IF HasUnknownDependency(cfg) THEN {"ErrUnknownDependency"} ELSE {})
    \cup (IF HasClosedChain(cfg) THEN {"ErrCyclicDependency"} ELSE {})

\* C5 (as claimed): for a config with an unknown dependsOn or a cycle,
\* Execute returns that error, ProcessRequest is never called and the
\* result collector is never invoked.
C5_StructuralErrorReturned ==
    (pc = "returned" /\ ~ValidConfig)
        => /\ execErr.cause \in StructuralErrors(config)
           /\ calls = <<>>
           /\ collected = <<>>

\* C5 (amended): for a config with an unknown dependsOn or a cycle,
\* Execute never reaches its loop, ProcessRequest is never called and the
\* result collector is never invoked; Execute returns, from the graph
\* build, UnknownDependency when some dependsOn names no request of the
\* list and CyclicDependency otherwise, or the context's error when the
\* graph build finds the context done.
C5_StructuralFailureAborts ==
    ~ValidConfig
        => /\ pc \in {"idle", "returned"}
           /\ calls = <<>>
           /\ collected = <<>>
           /\ pc = "returned"
                  => /\ execErr.stage = "build"
                     /\ \/ execErr.cause = "ctx" /\ ctxDone
                        \/ execErr.cause =
                               IF HasUnknownDependency(config)
                               THEN "ErrUnknownDependency"
                               ELSE "ErrCyclicDependency"

\* C5 witness: Execute has returned CyclicDependency for a config with a
\* cycle, and UnknownDependency is what a config with both gets.
C5_Witness ==
    /\ pc = "returned"
    /\ HasClosedChain(config)
    /\ ~ctxDone
    /\ execErr.cause = IF HasUnknownDependency(config)
                       THEN "ErrUnknownDependency"
                       ELSE "ErrCyclicDependency"
    /\ calls = <<>>

\* C6: with ignoreFail=false, once ProcessRequest has failed for a request,
\* Execute has returned the error of that call wrapped with the request's
\* name, and that call is the last one of the run.
C6_FailureAbortsRun ==
    ~config.IgnoreFail
        => \A i \in DOMAIN calls :
               ~calls[i].ok
                   => /\ i = Len(calls)
                      /\ pc = "returned"
                      /\ last.err # "nil"
                      /\ execErr = [stage |-> "request", cause |-> last.err,
                                    name |-> calls[i].name]

\* C6 witness: a run with ignoreFail=false ended by the failure of a
\* request that was neither the first nor the last of the order.
C6_Witness ==
    /\ ~config.IgnoreFail
    /\ pc = "returned"
    /\ execErr.stage = "request"
    /\ Len(calls) > 1
    /\ Len(calls) < Len(graph.order)
    /\ ~calls[Len(calls)].ok

\* C7 (as claimed): with ignoreFail=true and a context that is never
\* cancelled, every request of the config is processed exactly once and
\* Execute returns no error.
C7_EveryRequestProcessedOnce ==
    (config.IgnoreFail /\ pc = "returned" /\ ~ctxDone)
        => /\ execErr = NoError
           /\ IsPermutationOf(CalledNames, NamesOf(config))

\* C7 (amended): with ignoreFail=true, a config without unknown dependsOn
\* and without cycle and a context that is never cancelled, no request is
\* processed twice, and when Execute returns every request of the config
\* has been processed exactly once and the error is nil, whatever calls
\* failed.
C7_ValidConfigEveryRequestProcessedOnce ==
    (config.IgnoreFail /\ ValidConfig)
        => /\ \A i, j \in DOMAIN calls : calls[i].name = calls[j].name => i = j
           /\ (pc = "returned" /\ ~ctxDone)
                  => /\ execErr = NoError
                     /\ IsPermutationOf(CalledNames, NamesOf(config))

\* C7 witness: a run with ignoreFail=true that returned with the context
\* never done, in which a request failed and a later one succeeded.
C7_Witness ==
    /\ config.IgnoreFail
    /\ ValidConfig
    /\ pc = "returned"
    /\ ~ctxDone
    /\ Len(calls) = NumRequests
    /\ \E i, j \in DOMAIN calls : i < j /\ ~calls[i].ok /\ calls[j].ok

\* C8 (as claimed): a second Execute on the same ChainExecutor starts with
\* an empty variable store.
C8_SecondRunStartsEmpty ==
    (run > 1 /\ pc = "idle") => DOMAIN values = {}

\* ------------------------------------------------------------------------
\* The request processor's specification: one ProcessRequest call on a
\* store that earlier requests have filled, for a request with an
\* extraction map, under a context that may be done at any of its checks.
\* ------------------------------------------------------------------------
NumValues == 2

AllValues == << <<"1">>, <<"2">>, <<"3">>, <<"4">> >>
Values == {AllValues[i] : i \in 1..NumValues}

\* The keys of the extraction maps (the empty name is one Set refuses) and
\* the path each is extracted from.
ExtractNames == {VarName(1), VarName(2), <<>>}
PathOfName(n) == IF n = VarName(2) THEN <<"k">> ELSE IdPath
ExtractMaps == {[n \in S |-> PathOfName(n)] : S \in SUBSET ExtractNames}

\* The response bodies: each path absent or present with a value.
Paths == {PathOfName(n) : n \in ExtractNames}
Bodies == UNION {[S -> Values] : S \in SUBSET Paths}

\* The stores earlier requests may have left.
Stores == UNION {[S -> Values] : S \in SUBSET (ExtractNames \ {<<>>})}

ProcessOutcomes ==
    {NoResponse("factoryErr"), NoResponse("clientErr")}
    \cup {[kind |-> "response", StatusCode |-> 200, body |-> b,
           tooLarge |-> FALSE] : b \in Bodies}
    \cup {[kind |-> "response", StatusCode |-> 200, body |-> <<>>,
           tooLarge |-> TRUE]}

ProcessedRequest(extract) == [MakeRequest(1, "") EXCEPT !.Extract = extract]

InitProcess ==
    /\ values \in Stores
    /\ resolved = NoCall
    /\ processed = NoProcessed
    /\ batch = NoBatch
    /\ pool = NoPool
    /\ validated = NoValidated
    /\ store = NoStore
    /\ config = NoConfig
    /\ dr = NewDependencyResolver
    /\ graph = NoGraph
    /\ ChainIdle

\* processor.ProcessRequest(ctx, request, config)
CallProcessRequest ==
    /\ ~processed.called
    /\ \E extract \in ExtractMaps, outcome \in ProcessOutcomes, doneAt \in 1..6 :
       \E iterE \in MapOrders(DOMAIN extract) :
       \E iterS \in MapOrders(DOMAIN extract) :
       \E r \in {ProcessRequest(values, ProcessedRequest(extract), outcome,
                                doneAt, iterE, iterS)} :
           /\ values' = r.values
           /\ processed' = [called |-> TRUE, extract |-> extract,
                            outcome |-> outcome, doneAt |-> doneAt,
                            iterE |-> iterE, iterS |-> iterS,
                            before |-> values,
                            err |-> r.err, result |-> r.result,
                            factory |-> r.factory, client |-> r.sent.sent,
                            extractor |-> r.extractor]
    /\ UNCHANGED <<resolved, config, dr, graph, chainVars, batch, pool, validated,
                   store>>

NextProcess == CallProcessRequest

SpecProcess == InitProcess /\ [][NextProcess]_vars

\* ------------------------------------------------------------------------
\* Claims about the request processor (checked under SpecProcess)
\* ------------------------------------------------------------------------

\* The call got a response and went on to ExtractVariables.
ExtractionReached ==
    /\ processed.called
    /\ processed.doneAt > 3
    /\ processed.outcome.kind = "response"
    /\ DOMAIN processed.extract # {}
PathMissing ==
    \E n \in DOMAIN processed.extract :
        processed.extract[n] \notin DOMAIN processed.outcome.body
\* What ExtractVariables returned to ProcessRequest.
Extracted ==
    ExtractVariables(processed.outcome, processed.extract, processed.iterE,
                     processed.doneAt)

BatchOutcomes == {"factoryErr", "clientErr", "ok"}

\* executeHttpRequest: client.Do. (the error, whether the client was
\* called, the status code of the response)
executeHttpRequest(outcome) ==
    IF outcome = "clientErr"
    THEN [err |-> "request execution failed", client |-> TRUE, StatusCode |-> 0]
    ELSE [err |-> "nil", client |-> TRUE, StatusCode |-> 200]

\* executeConfigRequest: factory.CreateFromConfig, then executeHttpRequest.
executeConfigRequest(outcome) ==
    IF outcome = "factoryErr"
    THEN [err |-> "failed to prepare request", client |-> FALSE, StatusCode |-> 0]
    ELSE executeHttpRequest(outcome)

\* The end of an iteration of the loop of ExecuteBatchSequential: the next
\* request, or `return nil` after the last one.
continueBatch(ex, cfg) ==
    IF ex.idx + 1 > Len(cfg.Request)
    THEN [ex EXCEPT !.idx = @ + 1, !.pc = "returned", !.err = "nil"]
    ELSE [ex EXCEPT !.idx = @ + 1]

\* A policy that does not read IgnoreFail.
sequentialFailureReturns_IgnoresFlag(cfg, collector, err) ==
    ~collector /\ err # "nil"

\* Whether the iteration returns the wrapped error of its request: the
\* `else if err != nil` branch, which is not taken when a collector is set.
sequentialFailureReturns(cfg, collector, err) ==
    ~collector /\ err # "nil" /\ ~cfg.IgnoreFail

\* A done case that goes on to the next request whatever IgnoreFail is.
contextDoneCase_AlwaysContinues(ex, cfg) ==
    continueBatch([ex EXCEPT !.skipped = @ \cup {ex.idx}], cfg)

\* The case `<-executor.ctx.Done()` of an iteration: with IgnoreFail the
\* request is passed over, else the context's error is returned.
contextDoneCase(ex, cfg) ==
    IF cfg.IgnoreFail
    THEN continueBatch([ex EXCEPT !.skipped = @ \cup {ex.idx}], cfg)
    ELSE [ex EXCEPT !.pc = "returned", !.err = "ctx"]

\* One iteration of the loop of ExecuteBatchSequential, for the request at
\* ex.idx, on an Executor with or without a result collector.
ExecuteBatchSequentialIteration(ex, cfg, collector, outcome, done) ==
    IF done
    THEN contextDoneCase(ex, cfg)
    ELSE LET r == executeConfigRequest(outcome)
             called == [ex EXCEPT !.attempts =
                           Append(@, [i |-> ex.idx, client |-> r.client,
                                      failed |-> r.err # "nil"]),
                                  !.collected =
                           IF collector THEN Append(@, ex.idx) ELSE @]
         IN  IF sequentialFailureReturns(cfg, collector, r.err)
             THEN [called EXCEPT !.pc = "returned",
                                 !.err = "batch request failed"]
             ELSE continueBatch(called, cfg)

\* ------------------------------------------------------------------------
\* The sequential batch specification: ExecuteBatchSequential on the two
\* Executors side by side, under a context that may become done at any
\* moment.
\* ------------------------------------------------------------------------
NumBatchRequests == 3

AllBatchNames == <<"r1", "r2", "r3", "r4", "r5", "r6", "r7", "r8">>

\* The i-th request of a batch: a name, a method and a path, no dependsOn.
BatchRequest(i) ==
    [Name |-> AllBatchNames[i], Method |-> "GET", Path |-> <<"/", "p">>,
     DependsOn |-> ""]

BatchConfigs(max) ==
    {[Request |-> [i \in 1..n |-> BatchRequest(i)],
      IgnoreFail |-> ignoreFail] : n \in 0..max, ignoreFail \in BOOLEAN}

InitBatch ==
    /\ values = NewVariableResolver
    /\ resolved = NoCall
    /\ processed = NoProcessed
    /\ batch = NoBatch
    /\ pool = NoPool
    /\ validated = NoValidated
    /\ store = NoStore
    /\ config \in BatchConfigs(NumBatchRequests)
    /\ dr = NewDependencyResolver
    /\ graph = NoGraph
    /\ ChainIdle

\* ExecuteBatchSequential is called on both Executors: the loop begins, or
\* ends at once for an empty request list.
BatchStart ==
    /\ \A c \in BOOLEAN : batch.ex[c].pc = "idle"
    /\ batch' = [batch EXCEPT !.ex =
                    [c \in BOOLEAN |->
                        IF Len(config.Request) = 0
                        THEN [@[c] EXCEPT !.pc = "returned"]
                        ELSE [@[c] EXCEPT !.pc = "loop"]]]
    /\ UNCHANGED <<values, resolved, config, dr, graph, chainVars, processed, pool, validated,
                   store>>

\* The next iteration, on every Executor that is still in its loop, with
\* one outcome for the request.
BatchIterate ==
    /\ \E c \in BOOLEAN : batch.ex[c].pc = "loop"
    /\ \E outcome \in BatchOutcomes :
           batch' = [batch EXCEPT !.ex =
                        [c \in BOOLEAN |->
                            IF @[c].pc = "loop"
                            THEN ExecuteBatchSequentialIteration(
                                     @[c], config, c, outcome, batch.ctxDone)
                            ELSE @[c]]]
    /\ UNCHANGED <<values, resolved, config, dr, graph, chainVars, processed, pool, validated,
                   store>>

\* The executor's context becomes done.
BatchCancel ==
    /\ ~batch.ctxDone
    /\ \E c \in BOOLEAN : batch.ex[c].pc # "returned"
    /\ batch' = [batch EXCEPT !.ctxDone = TRUE]
    /\ UNCHANGED <<values, resolved, config, dr, graph, chainVars, processed, pool, validated,
                   store>>

NextBatch == BatchStart \/ BatchIterate \/ BatchCancel

SpecBatch == InitBatch /\ [][NextBatch]_vars

\* ------------------------------------------------------------------------
\* Claims about the sequential batch (checked under SpecBatch)
\* ------------------------------------------------------------------------
AttemptedIndices(ex) == {ex.attempts[k].i : k \in DOMAIN ex.attempts}

\* C12 (as claimed): with ignoreFail=false and a context that is not
\* cancelled, once a request has failed the run has returned a wrapped
\* error and no factory or transport call is made for a later request.
C12_SequentialFailureAborts ==
    \A c \in BOOLEAN :
        (~config.IgnoreFail /\ ~batch.ctxDone)
            => \A k \in DOMAIN batch.ex[c].attempts :
                   batch.ex[c].attempts[k].failed
                       => /\ k = Len(batch.ex[c].attempts)
                          /\ batch.ex[c].pc = "returned"
                          /\ batch.ex[c].err = "batch request failed"

\* C13 (as claimed): for the same config and the same outcomes, the run
\* with a result collector and the run without return the same result and
\* make the same sequence of factory and transport calls.
C13_CollectorChangesNothing ==
    (\A c \in BOOLEAN : batch.ex[c].pc = "returned")
        => /\ batch.ex[TRUE].err = batch.ex[FALSE].err
           /\ batch.ex[TRUE].attempts = batch.ex[FALSE].attempts

\* C17: ExecuteBatchSequential attempts the requests in config order, each
\* at most once, the call for a request made only after the calls for all
\* requests before it in the list were made or passed over; with
\* ignoreFail=true every request the loop has come to was attempted,
\* failed ones included, unless the context was found done at its
\* iteration, and the run returns no error.
C17_SequentialInConfigOrder ==
    \A c \in BOOLEAN :
        LET ex == batch.ex[c]
        IN  /\ \A k, l \in DOMAIN ex.attempts :
                   k < l => ex.attempts[k].i < ex.attempts[l].i
            /\ config.IgnoreFail
                   => /\ AttemptedIndices(ex) \cup ex.skipped
                             = 1..(ex.idx - 1)
                      /\ \A i \in AttemptedIndices(ex), j \in ex.skipped : i < j
                      /\ ex.skipped # {} => batch.ctxDone
                      /\ ex.pc = "returned"
                             => /\ ex.err = "nil"
                                /\ ex.idx = Len(config.Request) + 1

\* C17 witness: a run with ignoreFail=true returned after attempting every
\* request, one of which failed before the last.
C17_Witness ==
    \E c \in BOOLEAN :
        /\ config.IgnoreFail
        /\ batch.ex[c].pc = "returned"
        /\ Len(batch.ex[c].attempts) = NumBatchRequests
        /\ \E k \in 1..(NumBatchRequests - 1) : batch.ex[c].attempts[k].failed

\* ------------------------------------------------------------------------
\* The concurrent batch: ExecuteBatchConcurrent, sendJobs and worker
\* ------------------------------------------------------------------------
DefaultMaxWorkers == 5

\* A worker count that is not capped.
maxWorkers_Uncapped(requestCount) == requestCount

\* maxWorkers of ExecuteBatchConcurrent.
maxWorkers(requestCount) ==
    IF requestCount < DefaultMaxWorkers THEN requestCount
    ELSE DefaultMaxWorkers

\* A receive that leaves the job in the channel.
jobsReceive_KeepsJob(jobs) == [req |-> Head(jobs), rest |-> jobs]

\* `req, ok := <-jobs` on a channel that holds a job.
jobsReceive(jobs) == [req |-> Head(jobs), rest |-> Tail(jobs)]

\* A send that replaces the error the channel holds.
errChSend_Overwrites(errCh, i) == i

\* The non-blocking send of the wrapped error of request i to errCh (0: the
\* channel is empty): dropped when the channel holds an error.
errChSend(errCh, i) == IF errCh = 0 THEN i ELSE errCh

\* ExecuteBatchConcurrent up to the start of sendJobs: the channels are
\* made and maxWorkers workers are started. calls[i] and clientCalls[i]
\* count the factory and the client calls for request i, failed is the set
\* of requests whose call returned an error, firstFailure the first
\* request whose error a worker tried to send. With a result collector
\* set, inCollector holds, for every worker that is inside the collector,
\* the results slice it read, and results is the slice of the caller that
\* the collector appends to.
StartPool(cfg) ==
    [pc |-> "sendJobs", idx |-> 1, jobs |-> <<>>, closed |-> FALSE,
     workers |-> maxWorkers(Len(cfg.Request)), inFlight |-> {}, exited |-> 0,
     errCh |-> 0, calls |-> [i \in 1..Len(cfg.Request) |-> 0],
     clientCalls |-> [i \in 1..Len(cfg.Request) |-> 0],
     failed |-> {}, firstFailure |-> 0,
     ctxDone |-> FALSE, err |-> "nil", errOf |-> 0,
     collector |-> FALSE, inCollector |-> <<>>, results |-> <<>>]

\* The workers that are at the select of their loop.
IdleWorkers(p) ==
    p.workers - Cardinality(p.inFlight) - Cardinality(DOMAIN p.inCollector)
    - p.exited

\* ------------------------------------------------------------------------
\* The concurrent batch specification
\* ------------------------------------------------------------------------
NumConcurrentRequests == 6

InitConcurrent ==
    /\ values = NewVariableResolver
    /\ resolved = NoCall
    /\ processed = NoProcessed
    /\ batch = NoBatch
    /\ pool = NoPool
    /\ validated = NoValidated
    /\ store = NoStore
    /\ config \in BatchConfigs(NumConcurrentRequests)
    /\ dr = NewDependencyResolver
    /\ graph = NoGraph
    /\ ChainIdle

PoolUnchanged ==
    UNCHANGED <<values, resolved, config, dr, graph, chainVars, processed, batch,
                validated, store>>

\* ExecuteBatchConcurrent is called.
ExecuteBatchConcurrentStart ==
    /\ pool.pc = "idle"
    /\ pool' = [StartPool(config) EXCEPT !.collector = pool.collector]
    /\ PoolUnchanged

\* sendJobs: `jobs <- req` for the next request. The channel has room for
\* every request, so the send is always ready; with the context done the
\* select may take either case.
SendJob ==
    /\ pool.pc = "sendJobs"
    /\ pool.idx <= Len(config.Request)
    /\ pool' = [pool EXCEPT !.jobs = Append(@, pool.idx), !.idx = @ + 1]
    /\ PoolUnchanged

\* sendJobs returns, after the last request or because the context is
\* done, and ExecuteBatchConcurrent closes the channel and waits.
CloseJobs ==
    /\ pool.pc = "sendJobs"
    /\ pool.idx > Len(config.Request) \/ pool.ctxDone
    /\ pool' = [pool EXCEPT !.closed = TRUE, !.pc = "wait"]
    /\ PoolUnchanged

\* worker: a job is received and executeConfigRequest begins.
WorkerTake ==
    /\ pool.pc \in {"sendJobs", "wait"}
    /\ IdleWorkers(pool) > 0
    /\ pool.jobs # <<>>
    /\ \E r \in {jobsReceive(pool.jobs)} :
           pool' = [pool EXCEPT !.jobs = r.rest,
                                !.inFlight = @ \cup {r.req},
                                !.calls[r.req] = @ + 1]
    /\ PoolUnchanged

\* The end of an iteration of worker for request i, whose call failed or
\* not: unless IgnoreFail, the error is sent to errCh.
afterCollector(p, cfg, i) ==
    [p EXCEPT
        !.firstFailure =
            IF i \in p.failed /\ ~cfg.IgnoreFail /\ @ = 0 THEN i ELSE @,
        !.errCh =
            IF i \in p.failed /\ ~cfg.IgnoreFail THEN errChSend(@, i) ELSE @]

\* worker: executeConfigRequest returns. Without a collector the iteration
\* ends. With a collector the worker calls it: the collector of the bat
\* command builds its entry and reads the results slice, to append to it.
WorkerFinish ==
    /\ pool.pc \in {"sendJobs", "wait"}
    /\ \E i \in pool.inFlight, outcome \in BatchOutcomes :
        \E r \in {executeConfigRequest(outcome)} :
        \E p \in {[pool EXCEPT
                      !.inFlight = @ \ {i},
                      !.clientCalls[i] = IF r.client THEN @ + 1 ELSE @,
                      !.failed = IF r.err # "nil" THEN @ \cup {i} ELSE @]} :
           pool' = IF pool.collector
                   THEN [p EXCEPT !.inCollector = (i :> pool.results) @@ @]
                   ELSE afterCollector(p, config, i)
    /\ PoolUnchanged

\* worker: the collector stores the slice it read with its entry appended,
\* and returns; the iteration ends.
CollectorAppend ==
    /\ pool.pc \in {"sendJobs", "wait"}
    /\ \E i \in DOMAIN pool.inCollector :
           pool' = afterCollector(
                       [pool EXCEPT
                           !.results = Append(pool.inCollector[i], i),
                           !.inCollector =
                               [j \in DOMAIN @ \ {i} |-> @[j]]],
                       config, i)
    /\ PoolUnchanged

\* A worker that does not see the jobs channel closed.
workerMayExit_OnlyWhenDone(p) == p.ctxDone

\* Whether a worker at its select returns: the context is done, or the
\* receive reports the channel closed and empty.
workerMayExit(p) == p.ctxDone \/ (p.closed /\ p.jobs = <<>>)

\* worker: the loop ends, because the context is done or because the
\* channel is closed and empty.
WorkerExit ==
    /\ pool.pc \in {"sendJobs", "wait"}
    /\ IdleWorkers(pool) > 0
    /\ workerMayExit(pool)
    /\ pool' = [pool EXCEPT !.exited = @ + 1]
    /\ PoolUnchanged

\* ExecuteBatchConcurrent: every worker has exited; the last select.
ExecuteBatchConcurrentReturn ==
    /\ pool.pc = "wait"
    /\ pool.exited = pool.workers
    /\ \/ /\ pool.ctxDone
          /\ pool' = [pool EXCEPT !.pc = "returned", !.err = "ctx"]
       \/ /\ pool.errCh # 0
          /\ pool' = [pool EXCEPT
                 !.pc = "returned", !.errCh = 0,
                 !.err = IF config.IgnoreFail THEN "nil"
                         ELSE "batch request failed",
                 !.errOf = IF config.IgnoreFail THEN 0 ELSE pool.errCh]
       \/ /\ ~pool.ctxDone /\ pool.errCh = 0
          /\ pool' = [pool EXCEPT !.pc = "returned", !.err = "nil"]
    /\ PoolUnchanged

\* The executor's context becomes done.
CancelPool ==
    /\ pool.pc \in {"sendJobs", "wait"}
    /\ ~pool.ctxDone
    /\ pool' = [pool EXCEPT !.ctxDone = TRUE]
    /\ PoolUnchanged

NextConcurrent ==
    \/ ExecuteBatchConcurrentStart
    \/ SendJob
    \/ CloseJobs
    \/ WorkerTake
    \/ WorkerFinish
    \/ WorkerExit
    \/ ExecuteBatchConcurrentReturn
    \/ CancelPool

SpecConcurrent == InitConcurrent /\ [][NextConcurrent]_vars

\* ------------------------------------------------------------------------
\* Claims about the concurrent batch (checked under SpecConcurrent)
\* ------------------------------------------------------------------------
PoolStarted == pool.pc # "idle"
PoolReturned == pool.pc = "returned"

\* C14: no request is executed twice, cancelled context or not (at most
\* one factory call and at most one client call for each request); when
\* ExecuteBatchConcurrent returns and the context was never cancelled,
\* every request of the config had exactly one executeConfigRequest call,
\* whatever requests failed and whatever ignoreFail is: one factory call,
\* and one client call unless its factory call failed.
C14_EveryRequestAttemptedOnce ==
    PoolStarted
        => /\ \A i \in DOMAIN pool.calls :
                  pool.calls[i] <= 1 /\ pool.clientCalls[i] <= pool.calls[i]
           /\ (PoolReturned /\ ~pool.ctxDone)
                  => /\ DOMAIN pool.calls = 1..Len(config.Request)
                     /\ \A i \in DOMAIN pool.calls :
                            /\ pool.calls[i] = 1
                            /\ i \notin pool.failed => pool.clientCalls[i] = 1

\* C14 witness: a run of more requests than the worker cap returned without
\* cancellation after one request failed.
C14_Witness ==
    /\ PoolReturned
    /\ ~pool.ctxDone
    /\ Len(config.Request) > DefaultMaxWorkers
    /\ pool.failed # {}
    /\ pool.failed # DOMAIN pool.calls

\* C15: when ExecuteBatchConcurrent returns and the context was never
\* cancelled, it returns an error exactly when ignoreFail is false and some
\* request failed, and that error is the first failure a worker stored in
\* the error channel.
C15_ErrorIffFailureAndNotIgnored ==
    (PoolReturned /\ ~pool.ctxDone)
        => /\ pool.err # "nil" <=> (~config.IgnoreFail /\ pool.failed # {})
           /\ pool.err # "nil"
                  => /\ pool.err = "batch request failed"
                     /\ pool.errOf = pool.firstFailure
                     /\ pool.errOf \in pool.failed

\* C15 witness: two requests failed with ignoreFail=false and the run
\* returned without cancellation.
C15_Witness ==
    /\ PoolReturned
    /\ ~pool.ctxDone
    /\ ~config.IgnoreFail
    /\ Cardinality(pool.failed) >= 2

\* C15 witness for ignoreFail=true: every request failed and the run
\* returned no error.
C15_WitnessAllFailIgnored ==
    /\ PoolReturned
    /\ ~pool.ctxDone
    /\ config.IgnoreFail
    /\ Len(config.Request) > 0
    /\ pool.failed = DOMAIN pool.calls
    /\ pool.err = "nil"

\* C16: the number of requests in flight never exceeds
\* min(DefaultMaxWorkers, number of requests).
C16_InFlightWithinCap ==
    PoolStarted
        => /\ Cardinality(pool.inFlight) <= DefaultMaxWorkers
           /\ Cardinality(pool.inFlight) <= Len(config.Request)

\* C16 witness: a run of more requests than the cap has DefaultMaxWorkers
\* requests in flight and a job waiting in the channel.
C16_Witness ==
    /\ PoolStarted
    /\ Cardinality(pool.inFlight) = DefaultMaxWorkers
    /\ pool.jobs # <<>>

\* ------------------------------------------------------------------------
\* Cancellation in the chain executor (checked under Spec)
\* ------------------------------------------------------------------------

\* C18: a step taken when an iteration of executeRequestsInOrder begins
\* with the context done makes Execute return the context's error, without
\* a ProcessRequest call and without a report to the collector, whatever
\* ignoreFail is; and a ProcessRequest call is only ever made by an
\* iteration that began with the context not done (a context that becomes
\* done during the call is seen by the call itself and by the next
\* iteration).
C18_CancelledIterationReturns ==
    [][/\ (pc = "loop" /\ idx <= Len(graph.order) /\ ctxDone)
           => /\ pc' = "returned"
              /\ execErr' = [stage |-> "ctx", cause |-> "ctx", name |-> ""]
              /\ calls' = calls
              /\ collected' = collected
              /\ values' = values
       /\ (pc = "loop" /\ Len(calls') > Len(calls)) => ~ctxDone]_vars

\* C18 witness: with ignoreFail=true the context became done during a
\* request, the loop went on, and the next iteration returned the
\* context's error with requests still to process.
C18_Witness ==
    /\ config.IgnoreFail
    /\ pc = "returned"
    /\ execErr.stage = "ctx"
    /\ calls # <<>>
    /\ ~calls[Len(calls)].ok
    /\ idx <= Len(graph.order)

\* ------------------------------------------------------------------------
\* Config.Validate (internal/rule/config.go)
\* ------------------------------------------------------------------------

\* validateBaseConfig: a base URL and at least one request.
validateBaseConfig(c) ==
    IF c.BaseUrl = <<>> THEN "base_url is required in config"
    ELSE IF Len(c.Request) = 0 THEN "at least one request must be defined"
    ELSE "nil"

\* validateRequestName: a name, not seen before; the name is added to
\* nameSet.
validateRequestName(name, nameSet) ==
    IF name = "" THEN [err |-> "request has no name", nameSet |-> nameSet]
    ELSE IF name \in nameSet
    THEN [err |-> "duplicate request name", nameSet |-> nameSet]
    ELSE [err |-> "nil", nameSet |-> nameSet \cup {name}]

\* validateRequestBasics: a method and a path.
validateRequestBasics(req) ==
    IF req.Method = "" THEN "method is required"
    ELSE IF req.Path = <<>> THEN "path is required"
    ELSE "nil"

\* validateRequestBody: at most one body that is not nil and not empty.
validateRequestBody(req) ==
    LET bodyCount == (IF isNonEmptyStringPtr(req.JsonBody) THEN 1 ELSE 0)
                   + (IF isNonEmptyStringPtr(req.FormBody) THEN 1 ELSE 0)
                   + (IF isNonEmptyStringPtr(req.RawBody) THEN 1 ELSE 0)
    IN  IF bodyCount > 1 THEN "multiple body types specified" ELSE "nil"

\* validateRequest: the name, the basics, the body.
validateRequest(req, nameSet) ==
    LET n == validateRequestName(req.Name, nameSet)
    IN  IF n.err # "nil" THEN n
        ELSE IF validateRequestBasics(req) # "nil"
        THEN [err |-> validateRequestBasics(req), nameSet |-> n.nameSet]
        ELSE [err |-> validateRequestBody(req), nameSet |-> n.nameSet]

\* validateRequests: the loop over the requests, from index i on.
RECURSIVE validateRequestsFrom(_, _, _)
validateRequestsFrom(c, i, nameSet) ==
    IF i > Len(c.Request) THEN "nil"
    ELSE LET r == validateRequest(c.Request[i], nameSet)
         IN  IF r.err # "nil" THEN r.err
             ELSE validateRequestsFrom(c, i + 1, r.nameSet)

validateRequests(c) == validateRequestsFrom(c, 1, {})

Validate(c) ==
    IF validateBaseConfig(c) # "nil" THEN validateBaseConfig(c)
    ELSE validateRequests(c)

\* ------------------------------------------------------------------------
\* The validation specification: Validate is called on a config.
\* ------------------------------------------------------------------------
NumValidateRequests == 2

ValidateNames == {""} \cup {AllReqNames[i] : i \in 1..NumValidateRequests}

\* What a request of a candidate config can lack or have too much of.
RequestShapes == {"ok", "noMethod", "noPath", "twoBodies"}

ShapedRequest(name, shape, dep) ==
    [Name |-> name,
     Method |-> IF shape = "noMethod" THEN "" ELSE "GET",
     Path |-> IF shape = "noPath" THEN <<>> ELSE <<"/", "p">>,
     Headers |-> <<>>,
     RawBody |-> IF shape = "twoBodies" THEN Ptr(<<"x">>) ELSE NilPtr,
     FormBody |-> Ptr(<<>>),
     JsonBody |-> Ptr(<<"{", "}">>),
     Extract |-> <<>>,
     DependsOn |-> dep]

CandidateRequests ==
    {ShapedRequest(name, shape, dep) :
        name \in ValidateNames, shape \in RequestShapes,
        dep \in ValidateNames \cup {UnknownName}}

InitValidate ==
    /\ values = NewVariableResolver
    /\ resolved = NoCall
    /\ EngineIdle
    /\ \E baseUrl \in {<<>>, <<"h">>}, n \in 0..NumValidateRequests :
       \E reqs \in [1..n -> CandidateRequests] :
           config = [BaseUrl |-> baseUrl, Request |-> reqs,
                     IgnoreFail |-> FALSE]
    /\ dr = NewDependencyResolver
    /\ graph = NoGraph
    /\ ChainIdle

CallValidate ==
    /\ ~validated.called
    /\ validated' = [called |-> TRUE, err |-> Validate(config)]
    /\ UNCHANGED <<values, resolved, config, dr, graph, chainVars, processed,
                   batch, pool, store>>

NextValidate == CallValidate

SpecValidate == InitValidate /\ [][NextValidate]_vars

\* C19 (as claimed): in every config Validate accepts, each non-empty
\* dependsOn names a request of the config and the dependsOn edges have no
\* cycle.
C19_AcceptedConfigHasSoundDependencies ==
    (validated.called /\ validated.err = "nil")
        => /\ ~HasUnknownDependency(config)
           /\ ~HasClosedChain(config)

\* ------------------------------------------------------------------------
\* Determinism of the execution order (checked under SpecOrder)
\* ------------------------------------------------------------------------

\* C20 (as claimed): the order CalculateExecutionOrder returned is the
\* order it returns under every iteration order of the range over the
\* request index.
C20_OrderIndependentOfIteration ==
    (graph.ordered /\ graph.orderErr = "nil")
        => \A iter \in MapOrders(dr.requests) :
               CalculateExecutionOrder(dr, iter, FALSE).order = graph.order

\* ------------------------------------------------------------------------
\* The truncation specification: Resolve of a text that refers to a
\* variable whose value has a length around maxVariableValueLength.
\*
\* A Go string is a sequence of bytes and len() and slicing count bytes. A
\* character outside ASCII takes more than one byte: the two bytes of such
\* a character are written "C3" (its first byte) and "A9" (its
\* continuation byte).
\* ------------------------------------------------------------------------
MaxExcess == 10

LongName == VarName(1)
OtherName == VarName(2)

\* The lengths of the value: short ones, and the lengths from just below
\* the maximum to MaxExcess above it.
LongLengths ==
    {0, 1, 5} \cup
    (maxVariableValueLength - 2)..(maxVariableValueLength + MaxExcess)

LongShapes == {"plain", "wide", "mixed", "refHead", "refCut"}

\* A value of the given length (in characters) and shape: "a" followed by
\* "b"s (the value of the test); two-byte characters only; "a" followed by
\* two-byte characters; a reference to the other variable followed by
\* "w"s; "w"s with a reference to the other variable across the place of
\* the cut.
LongValue(shape, len) ==
    CASE shape = "plain" ->
            [i \in 1..len |-> IF i = 1 THEN "a" ELSE "b"]
      [] shape = "wide" ->
            [i \in 1..(2 * len) |-> IF i % 2 = 1 THEN "C3" ELSE "A9"]
      [] shape = "mixed" ->
            IF len = 0 THEN <<>>
            ELSE [i \in 1..(2 * len - 1) |->
                     IF i = 1 THEN "a" ELSE IF i % 2 = 0 THEN "C3" ELSE "A9"]
      [] shape = "refHead" ->
            IF len < 4 THEN [i \in 1..len |-> "w"]
            ELSE Token(OtherName) \o [i \in 1..(len - 4) |-> "w"]
      [] shape = "refCut" ->
            IF len < 4 THEN [i \in 1..len |-> "w"]
            ELSE LET at == IF len >= maxVariableValueLength + 2
                           THEN maxVariableValueLength - 1
                           ELSE len - 3
                 IN  [i \in 1..(at - 1) |-> "w"] \o Token(OtherName)
                     \o [i \in 1..(len - at - 3) |-> "w"]

\* The text around the reference in the input of Resolve.
InputAffixes ==
    {[pre |-> <<>>, post |-> <<>>], [pre |-> <<"p">>, post |-> <<"q">>]}

\* The store after Set(LongName, value), with or without a value for the
\* other variable.
InitTruncate ==
    /\ \E shape \in LongShapes, len \in LongLengths, other \in BOOLEAN :
           values = IF other
                    THEN Set(Set(NewVariableResolver, LongName,
                                 LongValue(shape, len)).values,
                             OtherName, <<"z">>).values
                    ELSE Set(NewVariableResolver, LongName,
                             LongValue(shape, len)).values
    /\ resolved = NoCall
    /\ EngineIdle
    /\ config = NoConfig
    /\ dr = NewDependencyResolver
    /\ graph = NoGraph
    /\ ChainIdle

\* r.Resolve(pre ${long} post)
CallResolveLong ==
    /\ ~resolved.called
    /\ \E af \in InputAffixes :
       \E input \in {af.pre \o Token(LongName) \o af.post} :
           resolved' = [input |-> input, output |-> Resolve(values, input),
                        called |-> TRUE]
    /\ UNCHANGED <<values, config, engineVars, dr, graph, chainVars>>

NextTruncate == CallResolveLong

SpecTruncate == InitTruncate /\ [][NextTruncate]_vars

\* ------------------------------------------------------------------------
\* Claims about truncation (checked under SpecTruncate)
\* ------------------------------------------------------------------------

\* The indices at which a character of s begins.
CharStarts(s) == {i \in 1..Len(s) : s[i] # "A9"}

\* The first k characters of s.
FirstChars(s, k) ==
    IF Cardinality(CharStarts(s)) <= k
    THEN s
    ELSE LET b == CHOOSE c \in CharStarts(s) :
                      Cardinality({j \in CharStarts(s) : j < c}) = k
         IN  SubSeq(s, 1, b - 1)

\* Whether s holds a ${name} with a stored name.
HoldsStoredReference(s) ==
    \E j \in 1..Len(s) :
        /\ MatchEnd(s, j) # 0
        /\ SubSeq(s, j + 2, MatchEnd(s, j) - 1) \in DOMAIN values

NumStoreNames == 2

StoreNames == {VarName(i) : i \in 1..NumStoreNames}
StoreValues == {<<>>, <<"1">>, <<"2">>}

InitStore ==
    /\ values = NewVariableResolver
    /\ resolved = NoCall
    /\ EngineIdle
    /\ config = NoConfig
    /\ dr = NewDependencyResolver
    /\ graph = NoGraph
    /\ ChainIdle

\* r.Set(name, value), the empty name included.
CallStoreSet ==
    /\ \E name \in StoreNames \cup {<<>>}, value \in StoreValues :
       \E r \in {Set(values, name, value)} :
           /\ values' = r.values
           /\ store' = [op |-> "Set", name |-> name, value |-> value,
                        err |-> r.err, before |-> values,
                        written |-> IF r.err = "nil"
                                    THEN (name :> value) @@ store.written
                                    ELSE store.written]
    /\ UNCHANGED <<resolved, config, dr, graph, chainVars, processed, batch,
                   pool, validated>>

\* r.Get(name), for a name that may never have been set.
CallStoreGet ==
    /\ \E name \in StoreNames \cup {UnsetName, <<>>} :
       \E r \in {Get(values, name)} :
           store' = [op |-> "Get", name |-> name, value |-> r.value,
                     exists |-> r.exists, before |-> values,
                     written |-> store.written]
    /\ UNCHANGED <<values, resolved, config, dr, graph, chainVars, processed,
                   batch, pool, validated>>

NextStore == CallStoreSet \/ CallStoreGet

SpecStore == InitStore /\ [][NextStore]_vars

\* ------------------------------------------------------------------------
\* Claims about Set and Get (checked under SpecStore)
\* ------------------------------------------------------------------------

\* C22: Set with the empty name fails with ErrEmptyVariableName and leaves
\* the store as it was; Set with another name succeeds, whatever the store
\* held, and changes the store for that name only; Get of a name returns
\* the value last given to a successful Set of that name with found=true,
\* and found=false for a name no Set succeeded for; Get changes nothing.
C22_SetOverwritesGetReturnsLast ==
    /\ (store.op = "Set" /\ store.name = <<>>)
           => /\ store.err = "ErrEmptyVariableName"
              /\ values = store.before
    /\ (store.op = "Set" /\ store.name # <<>>)
           => /\ store.err = "nil"
              /\ DOMAIN values = DOMAIN store.before \cup {store.name}
              /\ values[store.name] = store.value
              /\ \A n \in DOMAIN store.before :
                     n # store.name => values[n] = store.before[n]
    /\ store.op = "Get"
           => /\ values = store.before
              /\ store.exists <=> store.name \in DOMAIN store.written
              /\ store.exists => store.value = store.written[store.name]

\* C22 witness: a Get returns the second of two different values set under
\* one name.
C22_Witness ==
    /\ store.op = "Get"
    /\ store.exists
    /\ store.value = <<"2">>
    /\ store.name = VarName(1)
    /\ VarName(2) \in DOMAIN values

\* ------------------------------------------------------------------------
\* Children before parents (checked under SpecOrder)
\* ------------------------------------------------------------------------

\* The index of a name in a list of distinct names.
IndexIn(list, name) == CHOOSE i \in DOMAIN list : list[i] = name

C24_DoneContextTakesPriority ==
    PoolReturned
        => /\ pool.ctxDone => pool.err = "ctx"
           /\ pool.err = "batch request failed" => ~pool.ctxDone

\* ------------------------------------------------------------------------
\* Cancellation in the sequential batch (checked under SpecBatch)
\* ------------------------------------------------------------------------

\* C25: an iteration of ExecuteBatchSequential that begins with the
\* context done makes no factory or transport call and no report to the
\* collector; with ignoreFail=true it passes to the next item, and the run
\* returns no error after the last one; with ignoreFail=false it returns
\* the context's error at once.
C25_DoneContextSkipsOrReturns ==
    [][\A c \in BOOLEAN :
         (batch.ex[c].pc = "loop" /\ batch.ctxDone)
             => /\ batch'.ex[c].attempts = batch.ex[c].attempts
                /\ batch'.ex[c].collected = batch.ex[c].collected
                /\ IF config.IgnoreFail
                   THEN /\ batch'.ex[c].idx = batch.ex[c].idx + 1
                        /\ batch'.ex[c].skipped
                               = batch.ex[c].skipped \cup {batch.ex[c].idx}
                        /\ IF batch.ex[c].idx = Len(config.Request)
                           THEN /\ batch'.ex[c].pc = "returned"
                                /\ batch'.ex[c].err = "nil"
                           ELSE batch'.ex[c].pc = "loop"
                   ELSE /\ batch'.ex[c].pc = "returned"
                        /\ batch'.ex[c].err = "ctx"]_vars

\* C25 witness: with ignoreFail=true the context became done after the
\* first item was attempted; the other items were passed over and the run
\* returned.
C25_Witness ==
    \E c \in BOOLEAN :
        /\ config.IgnoreFail
        /\ batch.ex[c].pc = "returned"
        /\ Len(batch.ex[c].attempts) = 1
        /\ batch.ex[c].skipped = 2..NumBatchRequests

\* C25 witness for ignoreFail=false: the run returned the context's error
\* with items left.
C25_WitnessReturned ==
    \E c \in BOOLEAN :
        /\ ~config.IgnoreFail
        /\ batch.ex[c].pc = "returned"
        /\ batch.ex[c].err = "ctx"
        /\ batch.ex[c].idx < Len(config.Request)

\* ------------------------------------------------------------------------
\* The steps of ProcessRequest (checked under SpecProcess)
\* ------------------------------------------------------------------------

\* The call returned an error, no result, and left the store as it was.
FailedWithoutEffect ==
    /\ processed.err # "nil"
    /\ processed.result = NoResult
    /\ values = processed.before

\* C26: ProcessRequest stops at its first failing step. With a context
\* that is done when it is called it returns the context's error without
\* a factory or a client call; when the factory fails it returns
\* ErrCreateRequest without a client call; when the client fails it
\* returns ErrRequestExecution without calling the extractor; in the three
\* cases it returns no result and the store is as it was. The client is
\* only called after the factory, the extractor only after the client.
C26_StopsAtFirstFailingStep ==
    processed.called
        => /\ processed.doneAt = 1
               => /\ processed.err = "ctx"
                  /\ ~processed.factory /\ ~processed.client
                  /\ ~processed.extractor
                  /\ FailedWithoutEffect
           /\ (processed.factory /\ processed.outcome.kind = "factoryErr")
               => /\ processed.err = "ErrCreateRequest"
                  /\ ~processed.client /\ ~processed.extractor
                  /\ FailedWithoutEffect
           /\ (processed.client /\ processed.outcome.kind = "clientErr")
               => /\ processed.err = "ErrRequestExecution"
                  /\ ~processed.extractor
                  /\ FailedWithoutEffect
           /\ processed.outcome.kind = "factoryErr" => ~processed.client
           /\ processed.client => processed.factory
           /\ processed.extractor
                  => processed.client /\ processed.outcome.kind = "response"

\* C26 witness: the factory failed for a request with an extraction map,
\* on a store that held a value.
C26_Witness ==
    /\ processed.called
    /\ processed.factory
    /\ processed.outcome.kind = "factoryErr"
    /\ DOMAIN processed.extract # {}
    /\ DOMAIN values # {}

\* C27 (as claimed): whenever ProcessRequest returns an error, the case of
\* a Set that refuses an extracted name included, the store is as it was
\* before the call.
C27_ErrorCommitsNothing ==
    (processed.called /\ processed.err # "nil")
        => values = processed.before

\* ------------------------------------------------------------------------
\* The concurrent batch of the bat command: ExecuteBatchConcurrent on an
\* Executor whose result collector appends to the caller's results slice
\* (cmd/validator.go, runBatchRequest).
\* ------------------------------------------------------------------------
NumCollectRequests == 3

InitCollect ==
    /\ values = NewVariableResolver
    /\ resolved = NoCall
    /\ processed = NoProcessed
    /\ batch = NoBatch
    /\ pool = [NoPool EXCEPT !.collector = TRUE]
    /\ validated = NoValidated
    /\ store = NoStore
    /\ config \in BatchConfigs(NumCollectRequests)
    /\ dr = NewDependencyResolver
    /\ graph = NoGraph
    /\ ChainIdle

NextCollect == NextConcurrent \/ CollectorAppend

SpecCollect == InitCollect /\ [][NextCollect]_vars

\* C28 (as claimed): at most one worker is inside the collector at any
\* time, and when ExecuteBatchConcurrent returns the results slice holds
\* one entry for every executed request.
C28_CollectorCallsNeverOverlap ==
    PoolStarted
        => /\ Cardinality(DOMAIN pool.inCollector) <= 1
           /\ PoolReturned
                  => /\ Len(pool.results)
                            = Cardinality({i \in DOMAIN pool.calls :
                                               pool.calls[i] > 0})
                     /\ \A i \in DOMAIN pool.calls :
                            pool.calls[i] > 0
                                => \E k \in DOMAIN pool.results :
                                       pool.results[k] = i

\* ------------------------------------------------------------------------
\* Termination of ExecuteBatchConcurrent: the concurrent batch with the
\* goroutines scheduled fairly. A step of the caller or of a worker that
\* can be taken is eventually taken; every call of a worker returns; the
\* context need never become done.
\* ------------------------------------------------------------------------
PoolStep ==
    \/ ExecuteBatchConcurrentStart
    \/ SendJob
    \/ CloseJobs
    \/ WorkerTake
    \/ WorkerFinish
    \/ WorkerExit
    \/ ExecuteBatchConcurrentReturn

SpecConcurrentFair == SpecConcurrent /\ WF_vars(PoolStep)

\* C29: ExecuteBatchConcurrent returns, for every request count, every
\* pattern of failures and every moment of cancellation; the jobs channel
\* never holds more than its capacity, the number of requests, so that
\* the send of sendJobs never blocks, and the call returns only after
\* every worker has exited.
C29_ConcurrentBatchReturns ==
    /\ <>PoolReturned
    /\ [](PoolStarted => Len(pool.jobs) <= Len(config.Request))
    /\ [](PoolReturned => pool.exited = pool.workers)

\* C29 witness: the call returned after the context became done while jobs
\* were still in the channel.
C29_Witness ==
    /\ PoolReturned
    /\ pool.ctxDone
    /\ pool.jobs # <<>>
    /\ Len(config.Request) > DefaultMaxWorkers

\* ------------------------------------------------------------------------
\* Termination of Resolve (checked under SpecResolve)
\* ------------------------------------------------------------------------

\* The depths of the calls of resolveRecursively that the last Resolve
\* made: none for the empty input, which Resolve returns at once.
LastCallDepths ==
    IF resolved.input = <<>>
    THEN {}
    ELSE resolveCallDepths(values, resolved.input, 0)

\* C30: Resolve returns for every store and every input, stores with
\* self-referencing and cyclic values included: resolveRecursively is
\* never called deeper than maxVariableRecursionDepth, so that at most 5
\* expansions are nested, and a step that calls Resolve leaves the store
\* as it was.
C30_ResolveBoundedAndReadOnly ==
    /\ [](resolved.called =>
            \A d \in LastCallDepths : d <= maxVariableRecursionDepth)
    /\ [][resolved'.called => values' = values]_vars

\* C30 witness: Resolve called on a reference to a name whose value refers
\* to itself; the recursion went down to the depth limit and the call
\* returned a text.
C30_Witness ==
    /\ resolved.called
    /\ resolved.input = Flatten(<<Ref(VarName(1))>>)
    /\ VarName(1) \in DOMAIN values
    /\ values[VarName(1)] = Flatten(<<Ref(VarName(1)), Text(<<"y">>)>>)
    /\ maxVariableRecursionDepth \in LastCallDepths
    /\ resolved.output = Flatten(<<Ref(VarName(1)), Text(<<"y", "y", "y", "y">>)>>)

\* C30 witness: the same for three names that refer to each other in a
\* cycle.
C30_WitnessCycle ==
    /\ resolved.called
    /\ resolved.input = Flatten(<<Ref(VarName(1))>>)
    /\ \A i \in VarIndex :
          /\ VarName(i) \in DOMAIN values
          /\ values[VarName(i)] = Flatten(<<Text(<<"x">>), Ref(NextVar(i))>>)
    /\ maxVariableRecursionDepth \in LastCallDepths
====
